---------------------------- MODULE Spec2Model ----------------------------
(***************************************************************************)
(* Model of the Discord webhook scanner: the chunked webhook store         *)
(* (storage.js), the scan checkpoint and the scan engine (src/scanner.js), *)
(* and the prune-invalid menu operation (cli.js).                          *)
(*                                                                         *)
(* The data directory is modelled as the sequence of chunk files           *)
(* webhooks_1.json .. webhooks_n.json, each file being the token sequence  *)
(* that JSON.stringify produced for it, plus the checkpoint file           *)
(* scan_state.json.  The engine is modelled step by step between its       *)
(* awaits (search call, content fetch, validation, store append).          *)
(***************************************************************************)
EXTENDS Integers, Sequences, FiniteSets, TLC

(***************************************************************************)
(* Bounds of the model and configuration values (config.js).               *)
(***************************************************************************)
\* config.storage.chunkSizeBytes, scaled down so that three URLs need two chunks
ChunkSizeBytes == 88
\* config.github.searchQueries.length
NumQueries == 2
\* config.github.pagesPerScan
Pages == 2
\* config.scanner.incrementalSaveInterval
SaveInterval == 2
\* number of faults in one behaviour: a failed read or write of a chunk file,
\* a failed write of the checkpoint, a kill of the process
MaxFaults == 1
\* number of performScan calls in one behaviour
MaxScans == 2
\* number of direct store calls in one behaviour of the store on its own
MaxStoreCalls == 3

\* Strings that match WEBHOOK_PATTERN
UrlA == "https://discord.com/api/webhooks/1/a"
UrlB == "https://discord.com/api/webhooks/2/b"
UrlC == "https://discordapp.com/api/webhooks/3/c"
Urls == {UrlA, UrlB, UrlC}

(***************************************************************************)
(* Generic helpers.                                                        *)
(***************************************************************************)
Range(s) == {s[i] : i \in 1..Len(s)}

NoDuplicates(s) == \A i, j \in 1..Len(s) : i # j => s[i] # s[j]

RECURSIVE Flatten(_)
Flatten(ss) == IF ss = <<>> THEN <<>> ELSE Head(ss) \o Flatten(Tail(ss))

\* Array.prototype.filter with the predicate "not in the set"
FilterNotIn(s, S) == LET keep(x) == x \notin S IN SelectSeq(s, keep)

(***************************************************************************)
(* JSON text of a chunk file.  A file is a sequence of tokens: "[", the    *)
(* string items separated by ",", and "]".                                 *)
(***************************************************************************)
RECURSIVE JoinItems(_)
JoinItems(xs) ==
  IF xs = <<>> THEN <<>>
  ELSE IF Len(xs) = 1 THEN <<xs[1]>>
  ELSE <<xs[1], ",">> \o JoinItems(Tail(xs))

\* JSON.stringify(array, null, 2) as tokens
Stringify(xs) == <<"[">> \o JoinItems(xs) \o <<"]">>

\* JSON.stringify(string).length: the quotes are added, a URL needs no escaping
JsonStringLen(u) == Len(u) + 2

RECURSIVE SumItemLen(_)
SumItemLen(xs) ==
  IF xs = <<>> THEN 0 ELSE JsonStringLen(Head(xs)) + 4 + SumItemLen(Tail(xs))

\* JSON.stringify(array, null, 2).length: "[\n", then per item two spaces of
\* indent, the quoted string and ",\n" (the last item "\n" only), then "]"
StringifyLen(xs) == IF xs = <<>> THEN 2 ELSE SumItemLen(xs) + 2

\* JSON.parse of a chunk file followed by Array.isArray succeeds: the text is
\* "[", string items separated by ",", "]"
IsArrayText(t) ==
  /\ Len(t) >= 2
  /\ t[1] = "["
  /\ t[Len(t)] = "]"
  /\ (Len(t) = 2 \/ Len(t) % 2 = 1)
  /\ \A i \in 2..(Len(t) - 1) : IF i % 2 = 0 THEN t[i] \in Urls ELSE t[i] = ","

\* The array JSON.parse returns for such a text
ParseArray(t) == [i \in 1..((Len(t) - 1) \div 2) |-> t[2 * i]]

(***************************************************************************)
(* Chunked store (storage.js).  files is the sequence of chunk files       *)
(* webhooks_1.json .. webhooks_n.json of the data directory.               *)
(***************************************************************************)
\* The for-loop of saveWebhooks that splits the array into chunks
RECURSIVE SplitLoop(_, _, _, _)
SplitLoop(ws, chunks, currentChunk, currentSize) ==
  IF ws = <<>>
  THEN IF Len(currentChunk) > 0 THEN Append(chunks, currentChunk) ELSE chunks
  ELSE LET webhook == Head(ws)
           size == JsonStringLen(webhook) + 4
       IN IF currentSize + size > ChunkSizeBytes
          THEN SplitLoop(Tail(ws), Append(chunks, currentChunk), <<webhook>>, size)
          ELSE SplitLoop(Tail(ws), chunks, Append(currentChunk, webhook),
                         currentSize + size)

\* A faulty variant of SplitChunks: the push of the last chunk after the loop
\* (lines 70-72) is left out
SplitChunksDropLast(webhooks) ==
  LET chunks == SplitLoop(webhooks, <<>>, <<>>, 0)
  IN SubSeq(chunks, 1, Len(chunks) - 1)

SplitChunks(webhooks) == SplitLoop(webhooks, <<>>, <<>>, 0)

\* The texts saveWebhooks writes, in order: element i goes to webhooks_i.json
ChunkTexts(webhooks) ==
  IF Len(webhooks) = 0 THEN << <<"[", "]">> >>
  ELSE IF StringifyLen(webhooks) <= ChunkSizeBytes THEN <<Stringify(webhooks)>>
  ELSE LET chunks == SplitChunks(webhooks)
       IN [i \in 1..Len(chunks) |-> Stringify(chunks[i])]

\* fs.writeFile of texts[1..n] over the files of the directory: a written file
\* is replaced, every other file is left as it is
WriteFiles(files, texts, n) ==
  LET last == IF Len(files) > n THEN Len(files) ELSE n
  IN [i \in 1..last |-> IF i <= n THEN texts[i] ELSE files[i]]

\* saveWebhooks(webhooks).  failAt = 0: every write succeeds; failAt = k > 0:
\* the k-th fs.writeFile rejects, the files before it are written and the
\* error is rethrown (ok = FALSE).
saveWebhooks(files, webhooks, failAt) ==
  LET texts == ChunkTexts(webhooks)
      fails == failAt > 0 /\ failAt <= Len(texts)
      n == IF fails THEN failAt - 1 ELSE Len(texts)
  IN [files |-> WriteFiles(files, texts, n), ok |-> ~fails]

\* A faulty variant of LoadFrom: the first chunk that cannot be used ends the
\* load, and the chunks after it are not read
RECURSIVE LoadFromAbort(_, _, _)
LoadFromAbort(files, bad, i) ==
  IF i > Len(files) THEN <<>>
  ELSE IF i \in bad \/ files[i] = <<>> \/ ~IsArrayText(files[i])
       THEN <<>>
       ELSE ParseArray(files[i]) \o LoadFromAbort(files, bad, i + 1)

\* loadAllWebhooks().  bad is the set of chunk files whose read fails; a file
\* that cannot be read or parsed, or is empty or not an array, is skipped.
RECURSIVE LoadFrom(_, _, _)
LoadFrom(files, bad, i) ==
  IF i > Len(files) THEN <<>>
  ELSE (IF i \in bad \/ files[i] = <<>> \/ ~IsArrayText(files[i])
        THEN <<>> ELSE ParseArray(files[i])) \o LoadFrom(files, bad, i + 1)

loadAllWebhooks(files, bad) == LoadFrom(files, bad, 1)

\* A faulty variant of appendWebhooks: only the new URLs are saved, the loaded
\* ones are not written back
appendWebhooksNewOnly(files, newWebhooks, bad, failAt) ==
  IF Len(newWebhooks) = 0
  THEN [files |-> files, ok |-> TRUE, wrote |-> FALSE, existing |-> <<>>,
        saved |-> <<>>]
  ELSE LET existingWebhooks == loadAllWebhooks(files, bad)
           uniqueNewWebhooks == FilterNotIn(newWebhooks, Range(existingWebhooks))
           r == saveWebhooks(files, uniqueNewWebhooks, failAt)
       IN IF Len(uniqueNewWebhooks) = 0
          THEN [files |-> files, ok |-> TRUE, wrote |-> FALSE,
                existing |-> existingWebhooks, saved |-> <<>>]
          ELSE [files |-> r.files, ok |-> r.ok, wrote |-> TRUE,
                existing |-> existingWebhooks, saved |-> uniqueNewWebhooks]

\* A faulty variant of appendWebhooks: the early return "all new webhooks
\* already exist" (lines 109-112) is left out, so it always saves
appendWebhooksAlwaysSave(files, newWebhooks, bad, failAt) ==
  IF Len(newWebhooks) = 0
  THEN [files |-> files, ok |-> TRUE, wrote |-> FALSE, existing |-> <<>>,
        saved |-> <<>>]
  ELSE LET existingWebhooks == loadAllWebhooks(files, bad)
           allWebhooks == existingWebhooks \o newWebhooks
           r == saveWebhooks(files, allWebhooks, failAt)
       IN [files |-> r.files, ok |-> r.ok, wrote |-> TRUE,
           existing |-> existingWebhooks, saved |-> allWebhooks]

\* appendWebhooks(newWebhooks).  wrote tells whether saveWebhooks was called,
\* existing is what its loadAllWebhooks returned.
appendWebhooks(files, newWebhooks, bad, failAt) ==
  IF Len(newWebhooks) = 0
  THEN [files |-> files, ok |-> TRUE, wrote |-> FALSE, existing |-> <<>>,
        saved |-> <<>>]
  ELSE LET existingWebhooks == loadAllWebhooks(files, bad)
           uniqueNewWebhooks == FilterNotIn(newWebhooks, Range(existingWebhooks))
           allWebhooks == existingWebhooks \o uniqueNewWebhooks
           r == saveWebhooks(files, allWebhooks, failAt)
       IN IF Len(uniqueNewWebhooks) = 0
          THEN [files |-> files, ok |-> TRUE, wrote |-> FALSE,
                existing |-> existingWebhooks, saved |-> <<>>]
          ELSE [files |-> r.files, ok |-> r.ok, wrote |-> TRUE,
                existing |-> existingWebhooks, saved |-> allWebhooks]

\* What the directory durably holds: loadAllWebhooks with every file readable
Stored(files) == loadAllWebhooks(files, {})
StoredSet(files) == Range(Stored(files))

(***************************************************************************)
(* Scan checkpoint (src/scanner.js).                                       *)
(***************************************************************************)
\* The initial value of the global scanState (scannedRepos is never written
\* by the engine and is left out)
ZeroScanState ==
  [lastQuery |-> 0, lastPage |-> 0, scannedFiles |-> {}, foundWebhooks |-> {}]

\* scan_state.json is absent (or unparsable)
NoCheckpoint == [exists |-> FALSE, state |-> ZeroScanState]

\* loadScanState(): a readable file replaces the in-memory state, a missing
\* or unparsable one leaves the in-memory state as it is
loadScanState(mem, file) == IF file.exists THEN file.state ELSE mem

\* Array.from(set): the elements of a Set as an array.  The sets of the
\* model carry no insertion order, so the array lists them in a fixed one.
RECURSIVE ArrayFrom(_)
ArrayFrom(set) ==
  IF set = {} THEN <<>>
  ELSE LET first == CHOOSE x \in set : TRUE
       IN <<first>> \o ArrayFrom(set \ {first})

\* The object saveScanState builds and writes with JSON.stringify: the two
\* counters and the Sets as arrays
StateJson(mem) ==
  [lastQuery |-> mem.lastQuery, lastPage |-> mem.lastPage,
   scannedFiles |-> ArrayFrom(mem.scannedFiles),
   foundWebhooks |-> ArrayFrom(mem.foundWebhooks)]

\* "x || 0" for a number x
OrZero(x) == IF x = 0 THEN 0 ELSE x

\* A faulty variant of ParseState: foundWebhooks is not read back
ParseStateNoFound(json) ==
  [lastQuery |-> OrZero(json.lastQuery), lastPage |-> OrZero(json.lastPage),
   scannedFiles |-> Range(json.scannedFiles), foundWebhooks |-> {}]

\* The scan state loadScanState builds from the parsed file: "|| 0" on the
\* counters, new Set(...) on the arrays
ParseState(json) ==
  [lastQuery |-> OrZero(json.lastQuery), lastPage |-> OrZero(json.lastPage),
   scannedFiles |-> Range(json.scannedFiles),
   foundWebhooks |-> Range(json.foundWebhooks)]

\* saveScanState(): writes the in-memory state; a failed write is logged and
\* swallowed and leaves the file as it was.  The model keeps of the file the
\* state a load of it yields.
saveScanState(mem, file, writeFails) ==
  IF writeFails THEN file
  ELSE [exists |-> TRUE, state |-> ParseState(StateJson(mem))]

(***************************************************************************)
(* The world the engine scans: two files, the matches of WEBHOOK_PATTERN   *)
(* in each, and the item lists a search call may return.                   *)
(***************************************************************************)
File1 == "octo/site:config.js"
File2 == "octo/bot:index.js"
FileIds == {File1, File2}

\* content.match(WEBHOOK_PATTERN) for the decoded content of a file
Matches(fileId) ==
  IF fileId = File1 THEN <<UrlA, UrlB>> ELSE <<UrlB, UrlB>>

\* What JSON.parse makes of a response body: parses is FALSE when
\* response.json() rejects; code is data.code (0 when there is none) and
\* hasId says whether data.id is there
NotJson == [parses |-> FALSE, code |-> 0, hasId |-> FALSE]
Bodies ==
  {NotJson} \cup
    {[parses |-> TRUE, code |-> c, hasId |-> h] : c \in {0, 10015, 50027},
                                                 h \in BOOLEAN}

\* What "await fetch(webhook)" ends with: a rejection (failed), or a response
\* with a status and a body
NetworkError == [failed |-> TRUE, status |-> 0, body |-> NotJson]
Statuses == {200, 204, 301, 304, 400, 401, 404, 429, 500}
Responses ==
  {NetworkError} \cup
    {[failed |-> FALSE, status |-> st, body |-> b] : st \in Statuses, b \in Bodies}

\* response.ok
ResponseOk(status) == status \in 200..299

\* A faulty variant of validateResponse: the status alone decides
validateResponseByStatus(response) ==
  ~response.failed /\ ResponseOk(response.status)

\* The body of validateWebhook after "await fetch(webhook)" has ended with
\* response: the value the function returns
validateResponse(response) ==
  IF response.failed THEN FALSE
  ELSE IF response.status = 404 THEN FALSE
  ELSE IF response.body.parses
       THEN IF response.body.code = 50027 THEN FALSE
            ELSE IF response.body.hasId THEN TRUE
            ELSE FALSE
       ELSE IF ResponseOk(response.status) THEN TRUE
       ELSE FALSE

\* What Discord answers for a URL of the model: the webhook behind UrlA has
\* been deleted (status 404, "Unknown Webhook"), the others exist
fetch(webhook) ==
  IF webhook = UrlA
  THEN [failed |-> FALSE, status |-> 404,
        body |-> [parses |-> TRUE, code |-> 10015, hasId |-> FALSE]]
  ELSE [failed |-> FALSE, status |-> 200,
        body |-> [parses |-> TRUE, code |-> 0, hasId |-> TRUE]]

\* validateWebhook(webhook)
validateWebhook(webhook) == validateResponse(fetch(webhook))

(***************************************************************************)
(* The wait of the rate-limit branch.  Times are milliseconds on the clock *)
(* of the process, counted from an arbitrary origin.                       *)
(***************************************************************************)
BufferMs == 1000

Max(a, b) == IF a > b THEN a ELSE b

\* Number.parseInt of a string of decimal digits
RECURSIVE ParseInt(_)
ParseInt(digits) ==
  IF digits = <<>> THEN 0
  ELSE 10 * ParseInt(SubSeq(digits, 1, Len(digits) - 1)) + digits[Len(digits)]

\* new Date(Number.parseInt(error.headers["x-ratelimit-reset"]) * 1000)
ResetTime(header) == ParseInt(header) * 1000

\* A faulty variant of waitTime: the difference is not clamped at 0
waitTimeUnclamped(resetTime, now) == (resetTime - now) + BufferMs

\* waitTime = Math.max(0, resetTime - new Date()) + 1000
waitTime(resetTime, now) == Max(0, resetTime - now) + BufferMs

\* searchResult.data.items of one search call, as FileIds
SearchResults == {<<>>, <<File1>>, <<File1, File2>>}

VARIABLES
  files,                \* chunk files webhooks_1.json .. of the data directory
  ckptFile,             \* scan_state.json
  scanState,            \* the global scanState of scanner.js
  validateBeforeSaving, \* config.scanner.validateBeforeSaving
  continuePreviousScan, \* config.scanner.continuePreviousScan
  pc,                   \* where the running performScan/scanGitHub stands
  saveIncrementally,    \* parameter of scanGitHub
  continuePrevious,     \* parameter of scanGitHub
  queryIndex,           \* loop variable of the query loop
  page,                 \* loop variable of the page loop
  items,                \* items of the current page still to process
  matches,              \* matches of the current file still to process
  webhooks,             \* the Set webhooks of scanGitHub, in insertion order
  invalidWebhooks,      \* the Set invalidWebhooks of scanGitHub
  pendingWebhooks,      \* the array pendingWebhooks of scanGitHub
  faults,               \* faults injected so far
  scans,                \* performScan calls so far
  storeCalls,           \* direct store calls so far
  lastCall,             \* history: the last search call and its outcome
  firstCall,            \* history: the first search call of this scanGitHub
  runCkpt,              \* history: scan_state.json when this scanGitHub began
  fetched,              \* history: FileIds whose content this scanGitHub requested
  extracted,            \* history: the URLs matched in the contents it decoded
  fetchFailed,          \* history: FileIds whose content request failed in it
  notified,             \* the URLs the last performScan posted a notification to
  probe,                \* the input of a function applied on its own
  answer,               \* what that function returned
  jobs,                 \* the performScan calls the menu handler has started
  resume,               \* history: interruption of an incremental resumable scan
  crashFiles,           \* history: scannedFiles of scan_state.json at the interruption
  scanBase,             \* history: the stored URLs when the scan began
  storeOp               \* history: the last saveWebhooks/appendWebhooks call

vars ==
  <<files, ckptFile, scanState, validateBeforeSaving, continuePreviousScan, pc,
    saveIncrementally, continuePrevious, queryIndex, page, items, matches,
    webhooks, invalidWebhooks, pendingWebhooks, faults, scans, storeCalls, lastCall,
    firstCall, runCkpt, fetched, extracted, fetchFailed, notified, probe,
    answer, jobs,
    resume, crashFiles, scanBase, storeOp>>

cfgVars == <<validateBeforeSaving, continuePreviousScan, scans, storeCalls>>
paramVars == <<saveIncrementally, continuePrevious>>
callVars == <<lastCall, firstCall>>
crashVars == <<resume, crashFiles>>
auxVars == <<probe, answer, jobs>>

\* No function is being applied on its own
NoProbe == [op |-> "none"]
NoAnswer == [op |-> "none"]

\* A search call: query index, page and outcome
NoCall == [q |-> 0, p |-> 0, res |-> "none"]
NoStoreOp ==
  [op |-> "none", arg |-> <<>>, before |-> <<>>, existing |-> <<>>,
   wrote |-> FALSE, saved |-> <<>>, ok |-> TRUE]

(***************************************************************************)
(* I/O faults.  A step injects at most one: the reads of a set of chunk    *)
(* files fail inside loadAllWebhooks (bad), the failAt-th chunk write of   *)
(* saveWebhooks rejects, or the checkpoint write rejects (ck).             *)
(***************************************************************************)
NoFault == [bad |-> {}, failAt |-> 0, ck |-> FALSE]

StoreFaults ==
  {[bad |-> b, failAt |-> 0, ck |-> FALSE] : b \in (SUBSET (1..Len(files))) \ {{}}}
    \cup {[bad |-> {}, failAt |-> k, ck |-> FALSE] : k \in 1..(Len(files) + 1)}

CkptFaults == {[bad |-> {}, failAt |-> 0, ck |-> TRUE]}

\* The faults a step may inject, given the calls it makes
FaultChoices(appendCalled, saveStateCalled) ==
  {NoFault} \cup
    (IF faults < MaxFaults
     THEN (IF appendCalled THEN StoreFaults ELSE {})
            \cup (IF saveStateCalled THEN CkptFaults ELSE {})
     ELSE {})

Count(f) == IF f = NoFault THEN faults ELSE faults + 1

\* A fault is injected only where it changes what the step does
Effective(f, withFault, without) == f = NoFault \/ withFault # without

\* The record kept of an appendWebhooks call
AppendOp(arg, r) ==
  [op |-> "append", arg |-> arg, before |-> files, existing |-> r.existing,
   wrote |-> r.wrote, saved |-> r.saved, ok |-> r.ok]

\* The lines of savePendingWebhooks after "await appendWebhooks", r being the
\* outcome of that call
AfterAppend(pend, r) ==
  [files |-> r.files, pending |-> IF r.ok THEN <<>> ELSE pend, ok |-> r.ok,
   op |-> AppendOp(pend, r)]

\* savePendingWebhooks() on the pending array pend: nothing when it is empty,
\* else appendWebhooks(pend) and, when that returns, pend is emptied; when it
\* throws (ok = FALSE) pend is kept
savePendingWebhooks(pend, f) ==
  IF Len(pend) > 0
  THEN AfterAppend(pend, appendWebhooks(files, pend, f.bad, f.failAt))
  ELSE [files |-> files, pending |-> pend, ok |-> TRUE, op |-> storeOp]

\* "await saveScanState()" after savePendingWebhooks() ended as sp
ThenSaveState(sp, st, f) ==
  [files |-> sp.files, pending |-> sp.pending, ok |-> sp.ok, op |-> sp.op,
   ckpt |-> IF sp.ok THEN saveScanState(st, ckptFile, f.ck) ELSE ckptFile]

\* "if (cond) { await savePendingWebhooks(); await saveScanState() }" with the
\* pending array pend and the in-memory state st; when appendWebhooks throws,
\* saveScanState is not reached
flushAndSaveState(cond, pend, st, f) ==
  IF cond
  THEN ThenSaveState(savePendingWebhooks(pend, f), st, f)
  ELSE [files |-> files, pending |-> pend, ok |-> TRUE, op |-> storeOp,
        ckpt |-> ckptFile]

\* A faulty variant of RetryPage: the "page--" is left out
RetryPageAdvance(p) == p + 1

\* "page--; continue" followed by the page++ of the for statement
RetryPage(p) == (p - 1) + 1

\* A faulty variant of StartPage: every query starts at page 1
StartPageOne(cont, qi, st) == 1

\* startPage of the page loop; lastQuery has just been set to queryIndex
StartPage(cont, qi, st) == IF cont /\ qi = st.lastQuery THEN st.lastPage ELSE 1

\* A faulty variant of AlreadyScanned: the visited-file check never skips
AlreadyScannedNever(st, fileId) == FALSE

\* scanState.scannedFiles.has(fileId)
AlreadyScanned(st, fileId) == fileId \in st.scannedFiles

\* A faulty variant of SetAdd: the array keeps every value added
SetAddAgain(set, x) == Append(set, x)

\* Set.prototype.add on the insertion-ordered Set webhooks
SetAdd(set, x) == IF x \in Range(set) THEN set ELSE Append(set, x)

\* A faulty variant of AfterBreak: a failed query is tried again
AfterBreakSameQuery(qi) == qi

\* A faulty variant of AfterBreak: the query loop is left as well
AfterBreakEndScan(qi) == NumQueries

\* queryIndex after the "break" of the page loop: the queryIndex++ of the
\* query loop
AfterBreak(qi) == qi + 1

\* A faulty variant of CompletionState: the counters are left as they are
CompletionStateKeep(st) == st

\* A faulty variant of CompletionState: the whole state is reset, as
\* resetScanState does
CompletionStateReset(st) == ZeroScanState

\* The scan state after the query loop: when the last query was reached,
\* lastQuery and lastPage are set to 0 and nothing else changes
CompletionState(st) ==
  IF st.lastQuery >= NumQueries - 1
  THEN [st EXCEPT !.lastQuery = 0, !.lastPage = 0]
  ELSE st

\* A faulty variant of IntervalReached: the flush waits for one URL more
IntervalReachedLate(pend) == Len(pend) > SaveInterval

\* pendingWebhooks.length >= saveInterval
IntervalReached(pend) == Len(pend) >= SaveInterval

\* A faulty variant of AfterItemCatch: the error reaches the page catch
AfterItemCatchAbort(position) == "failed"

\* Where the engine stands after the catch of the item loop (lines 258-262):
\* its "continue" goes on with the item loop where it stood
AfterItemCatch(position) == position

\* A faulty variant of Accepts: the answer of the validator is ignored
AcceptsAll(webhook) == TRUE

\* Whether a new URL is accepted: validateWebhook decides when
\* config.scanner.validateBeforeSaving is set, otherwise every URL is
Accepts(webhook) == ~validateBeforeSaving \/ validateWebhook(webhook)

InitWith(checkpoint, started) ==
  /\ files = <<>>
  /\ ckptFile = checkpoint
  /\ scanState = ZeroScanState
  /\ validateBeforeSaving \in BOOLEAN
  /\ continuePreviousScan \in BOOLEAN
  /\ pc = "idle"
  /\ saveIncrementally = FALSE
  /\ continuePrevious = FALSE
  /\ queryIndex = 0
  /\ page = 0
  /\ items = <<>>
  /\ matches = <<>>
  /\ webhooks = <<>>
  /\ invalidWebhooks = {}
  /\ pendingWebhooks = <<>>
  /\ faults = 0
  /\ scans = started
  /\ storeCalls = 0
  /\ lastCall = NoCall
  /\ firstCall = NoCall
  /\ runCkpt = NoCheckpoint
  /\ fetched = {}
  /\ extracted = {}
  /\ fetchFailed = {}
  /\ resume = "none"
  /\ crashFiles = {}
  /\ scanBase = {}
  /\ storeOp = NoStoreOp
  /\ notified = {}

\* No checkpoint file and no scan started yet
InitScan == InitWith(NoCheckpoint, 0)

\* The process at its start, no function being applied on its own and no
\* menu line handled yet
Init ==
  /\ InitScan
  /\ probe = NoProbe
  /\ answer = NoAnswer
  /\ jobs = <<>>

(***************************************************************************)
(* performScan(isContinuous) up to the first query of scanGitHub:          *)
(* scanGitHub(token, pages, isContinuous, interval,                        *)
(*            isContinuous && config.scanner.continuePreviousScan).        *)
(***************************************************************************)
StartScan(isContinuous) ==
  LET cont == isContinuous /\ continuePreviousScan
      st == IF cont THEN loadScanState(scanState, ckptFile) ELSE ZeroScanState
  IN /\ pc = "idle"
     /\ scans < MaxScans
     /\ scans' = scans + 1
     /\ saveIncrementally' = isContinuous
     /\ continuePrevious' = cont
     /\ webhooks' = <<>>
     /\ invalidWebhooks' = {}
     /\ pendingWebhooks' = <<>>
     /\ scanState' = st
     /\ ckptFile' = IF cont THEN ckptFile ELSE NoCheckpoint
     /\ queryIndex' = IF cont THEN st.lastQuery ELSE 0
     /\ pc' = "query"
     /\ lastCall' = NoCall
     /\ firstCall' = NoCall
     /\ runCkpt' = ckptFile
     /\ fetched' = {}
     /\ extracted' = {}
     /\ fetchFailed' = {}
     /\ scanBase' = StoredSet(files)
     /\ storeOp' = NoStoreOp
     /\ resume' = IF resume = "crashed" /\ cont THEN "resumed" ELSE "none"
     /\ crashFiles' = IF resume = "crashed" /\ cont THEN crashFiles ELSE {}
     /\ UNCHANGED <<files, validateBeforeSaving, continuePreviousScan,
                    storeCalls, page, items, matches, faults>>
     /\ notified' = {}
     /\ UNCHANGED auxVars

\* Head of the query loop: loop test, reload or reset of the scan state,
\* lastQuery and startPage
NextQuery ==
  /\ pc = "query"
  /\ IF queryIndex < NumQueries
     THEN LET st0 == IF continuePrevious
                     THEN loadScanState(scanState, ckptFile) ELSE ZeroScanState
              st == [st0 EXCEPT !.lastQuery = queryIndex]
          IN /\ scanState' = st
             /\ ckptFile' = IF continuePrevious THEN ckptFile ELSE NoCheckpoint
             /\ page' = StartPage(continuePrevious, queryIndex, st)
             /\ pc' = "page"
     ELSE /\ pc' = "finish"
          /\ UNCHANGED <<scanState, ckptFile, page>>
  /\ UNCHANGED <<files, cfgVars, paramVars, queryIndex, items, matches, webhooks,
                 invalidWebhooks, pendingWebhooks, faults, callVars, runCkpt,
                 fetched, extracted, fetchFailed, crashVars, scanBase, storeOp>>
  /\ UNCHANGED notified
  /\ UNCHANGED auxVars

\* Head of the page loop and the search call octokit.search.code for
\* (queries[queryIndex], page): it returns items, or fails with the rate-limit
\* signal (403, x-ratelimit-remaining "0"), or fails otherwise
SearchPage ==
  /\ pc = "page"
  /\ IF page <= Pages
     THEN /\ scanState' = [scanState EXCEPT !.lastPage = page]
          /\ \E res \in {"ok", "ratelimit", "error"} :
               LET call == [q |-> queryIndex, p |-> page, res |-> res]
               IN
               /\ lastCall' = call
               /\ firstCall' = IF firstCall.res = "none" THEN call ELSE firstCall
               /\ IF res = "ok"
                  THEN /\ items' \in SearchResults
                       /\ pc' = "item"
                  ELSE /\ items' = <<>>
                       /\ pc' = IF res = "ratelimit" THEN "rateLimited" ELSE "failed"
          /\ UNCHANGED queryIndex
     ELSE \* the loop ends: "scanState.lastPage = 0" and queryIndex++
          /\ scanState' = [scanState EXCEPT !.lastPage = 0]
          /\ queryIndex' = queryIndex + 1
          /\ pc' = "query"
          /\ UNCHANGED <<items, callVars>>
  /\ UNCHANGED <<files, ckptFile, cfgVars, paramVars, page, matches, webhooks,
                 invalidWebhooks, pendingWebhooks, faults, runCkpt,
                 fetched, extracted, fetchFailed,
                  crashVars, scanBase, storeOp>>
  /\ UNCHANGED notified
  /\ UNCHANGED auxVars

\* The rate-limit branch of the page catch: flush, wait, retry this page
RateLimitWait ==
  /\ pc = "rateLimited"
  /\ LET cond == saveIncrementally /\ Len(pendingWebhooks) > 0
     IN \E f \in FaultChoices(cond, cond) :
          \E r \in {flushAndSaveState(cond, pendingWebhooks, scanState, f)} :
             /\ Effective(f, r, flushAndSaveState(cond, pendingWebhooks,
                                                  scanState, NoFault))
             /\ files' = r.files
             /\ pendingWebhooks' = r.pending
             /\ ckptFile' = r.ckpt
             /\ storeOp' = r.op
             /\ faults' = Count(f)
             /\ IF r.ok
                THEN /\ page' = RetryPage(page)
                     /\ pc' = "page"
                ELSE /\ pc' = "thrown"
                     /\ UNCHANGED page
  /\ UNCHANGED <<scanState, cfgVars, paramVars, queryIndex, items, matches,
                 webhooks, invalidWebhooks, callVars, runCkpt, fetched,
                 extracted, fetchFailed,
                  crashVars, scanBase>>
  /\ UNCHANGED notified
  /\ UNCHANGED auxVars

\* The other branch of the page catch: flush, break, and after the loop
\* "scanState.lastPage = 0" and queryIndex++
QueryAbort ==
  /\ pc = "failed"
  /\ LET cond == saveIncrementally /\ Len(pendingWebhooks) > 0
     IN \E f \in FaultChoices(cond, cond) :
          \E r \in {flushAndSaveState(cond, pendingWebhooks, scanState, f)} :
             /\ Effective(f, r, flushAndSaveState(cond, pendingWebhooks,
                                                  scanState, NoFault))
             /\ files' = r.files
             /\ pendingWebhooks' = r.pending
             /\ ckptFile' = r.ckpt
             /\ storeOp' = r.op
             /\ faults' = Count(f)
             /\ IF r.ok
                THEN /\ scanState' = [scanState EXCEPT !.lastPage = 0]
                     /\ queryIndex' = AfterBreak(queryIndex)
                     /\ pc' = "query"
                ELSE /\ pc' = "thrown"
                     /\ UNCHANGED <<scanState, queryIndex>>
  /\ UNCHANGED <<cfgVars, paramVars, page, items, matches, webhooks,
                 invalidWebhooks, callVars, runCkpt, fetched,
                 extracted, fetchFailed,
                 crashVars, scanBase>>
  /\ UNCHANGED notified
  /\ UNCHANGED auxVars

\* One turn of the item loop: the loop ends, or the item is skipped as
\* already scanned, or it is marked scanned and octokit.repos.getContent is
\* called: base64 content, content in another encoding, or a failure
NextItem ==
  /\ pc = "item"
  /\ IF items = <<>>
     THEN /\ pc' = "pageEnd"
          /\ UNCHANGED <<items, scanState, matches, fetched, extracted,
                         fetchFailed>>
     ELSE LET fileId == Head(items)
          IN /\ items' = Tail(items)
             /\ IF AlreadyScanned(scanState, fileId)
                THEN UNCHANGED <<pc, scanState, matches, fetched, extracted,
                                 fetchFailed>>
                ELSE /\ scanState' =
                          [scanState EXCEPT !.scannedFiles = @ \cup {fileId}]
                     /\ fetched' = fetched \cup {fileId}
                     /\ \E got \in {"base64", "other", "error"} :
                          /\ fetchFailed' = IF got = "error"
                                            THEN fetchFailed \cup {fileId}
                                            ELSE fetchFailed
                          /\ IF got = "base64"
                             THEN /\ matches' = Matches(fileId)
                                  /\ extracted' =
                                       extracted \cup Range(Matches(fileId))
                                  /\ pc' = "match"
                             ELSE /\ pc' = IF got = "error"
                                           THEN AfterItemCatch(pc) ELSE pc
                                  /\ UNCHANGED <<matches, extracted>>
  /\ UNCHANGED <<files, ckptFile, cfgVars, paramVars, queryIndex, page, webhooks,
                 invalidWebhooks, pendingWebhooks, faults, callVars, runCkpt,
                  crashVars, scanBase, storeOp>>
  /\ UNCHANGED notified
  /\ UNCHANGED auxVars

\* One turn of the loop over the matches of a file
NextMatch ==
  /\ pc = "match"
  /\ IF matches = <<>>
     THEN /\ pc' = "item"
          /\ UNCHANGED <<matches, scanState, webhooks, invalidWebhooks,
                         pendingWebhooks, files, ckptFile, storeOp,
                         faults, items>>
     ELSE LET webhook == Head(matches)
          IN IF webhook \in invalidWebhooks \/ webhook \in scanState.foundWebhooks
             THEN /\ matches' = Tail(matches)
                  /\ UNCHANGED <<pc, scanState, webhooks, invalidWebhooks,
                                 pendingWebhooks, files, ckptFile,
                                 storeOp, faults, items>>
             ELSE \E isValid \in {Accepts(webhook)},
                     timeUp \in (IF saveIncrementally THEN BOOLEAN ELSE {FALSE}) :
                    LET st == [scanState EXCEPT !.foundWebhooks = @ \cup {webhook}]
                        pend == IF isValid THEN Append(pendingWebhooks, webhook)
                                ELSE pendingWebhooks
                        \* timeUp: more than 5 minutes since lastSaveTime
                        cond == saveIncrementally
                                  /\ (IntervalReached(pend) \/ timeUp)
                    IN \E f \in FaultChoices(cond /\ Len(pend) > 0, cond) :
                         \E r \in {flushAndSaveState(cond, pend, st, f)} :
                            /\ Effective(f, r,
                                         flushAndSaveState(cond, pend, st, NoFault))
                            /\ scanState' = st
                            /\ webhooks' = IF isValid THEN SetAdd(webhooks, webhook)
                                           ELSE webhooks
                            /\ invalidWebhooks' = IF isValid THEN invalidWebhooks
                                                  ELSE invalidWebhooks \cup {webhook}
                            /\ files' = r.files
                            /\ pendingWebhooks' = r.pending
                            /\ ckptFile' = r.ckpt
                            /\ storeOp' = r.op
                            /\ faults' = Count(f)
                            /\ UNCHANGED items
                            /\ IF r.ok
                               THEN /\ matches' = Tail(matches)
                                    /\ UNCHANGED pc
                               ELSE \* the item catch: "continue" with the next item
                                    /\ matches' = <<>>
                                    /\ pc' = "item"
  /\ UNCHANGED <<cfgVars, paramVars, queryIndex, page, callVars, runCkpt, fetched,
                 extracted, fetchFailed,
                 crashVars, scanBase>>
  /\ UNCHANGED notified
  /\ UNCHANGED auxVars

\* After the item loop: save after each page, then page++
PageEnd ==
  /\ pc = "pageEnd"
  /\ LET cond == saveIncrementally /\ Len(pendingWebhooks) > 0
     IN \E f \in FaultChoices(cond, cond) :
          \E r \in {flushAndSaveState(cond, pendingWebhooks, scanState, f)} :
             /\ Effective(f, r, flushAndSaveState(cond, pendingWebhooks,
                                                  scanState, NoFault))
             /\ files' = r.files
             /\ pendingWebhooks' = r.pending
             /\ ckptFile' = r.ckpt
             /\ storeOp' = r.op
             /\ faults' = Count(f)
             /\ IF r.ok
                THEN /\ page' = page + 1
                     /\ pc' = "page"
                ELSE \* caught by the page catch, which takes its other branch
                     /\ pc' = "failed"
                     /\ UNCHANGED page
  /\ UNCHANGED <<scanState, cfgVars, paramVars, queryIndex, items, matches,
                 webhooks, invalidWebhooks, callVars, runCkpt, fetched,
                 extracted, fetchFailed,
                  crashVars, scanBase>>
  /\ UNCHANGED notified
  /\ UNCHANGED auxVars

\* After the query loop: the final flush, the reset of the counters, the
\* checkpoint save and the return of Array.from(webhooks)
Finish ==
  /\ pc = "finish"
  /\ \E f \in FaultChoices(Len(pendingWebhooks) > 0, TRUE) :
       \E sp \in {savePendingWebhooks(pendingWebhooks, f)},
          st \in {CompletionState(scanState)} :
          /\ Effective(f, <<sp, saveScanState(st, ckptFile, f.ck)>>,
                       <<savePendingWebhooks(pendingWebhooks, NoFault),
                         saveScanState(st, ckptFile, FALSE)>>)
          /\ files' = sp.files
          /\ pendingWebhooks' = sp.pending
          /\ storeOp' = sp.op
          /\ faults' = Count(f)
          /\ IF sp.ok
             THEN /\ scanState' = st
                  /\ ckptFile' = saveScanState(st, ckptFile, f.ck)
                  /\ pc' = "returned"
             ELSE /\ pc' = "thrown"
                  /\ UNCHANGED <<scanState, ckptFile>>
  /\ UNCHANGED <<cfgVars, paramVars, queryIndex, page, items, matches, webhooks,
                 invalidWebhooks, callVars, runCkpt, fetched,
                 extracted, fetchFailed,
                 crashVars, scanBase>>
  /\ UNCHANGED notified
  /\ UNCHANGED auxVars

\* config.notifications.enabled && config.notifications.autoNotifyNew: the
\* model runs with auto-notification switched on
autoNotifyNew == TRUE

\* findNewWebhooks(existingWebhooks, newWebhooks)
findNewWebhooks(existingWebhooks, newWebhooks) ==
  FilterNotIn(newWebhooks, Range(existingWebhooks))

\* The auto-notify block of performScan for the returned array
\* scannedWebhooks and the directory fs: the URLs sendNotification posts to.
\* sendNotification validates the URL itself and posts only when it is valid,
\* with and without validateBeforeNotify.
NotifyTargets(fs, scannedWebhooks) ==
  LET existingWebhooks == loadAllWebhooks(fs, {})
      newWebhooks ==
        findNewWebhooks(FilterNotIn(existingWebhooks, Range(scannedWebhooks)),
                        scannedWebhooks)
  IN {w \in Range(newWebhooks) : validateWebhook(w)}

\* The rest of performScan: after a normal return of a single scan the
\* returned array is appended (an error is caught and logged), then the
\* auto-notify block runs; after a throw of scanGitHub the catch of
\* performScan logs it
ScanTail ==
  /\ pc \in {"returned", "thrown"}
  /\ LET call == pc = "returned" /\ Len(webhooks) > 0 /\ ~saveIncrementally
     IN \E f \in FaultChoices(call, FALSE) :
          \E r \in {appendWebhooks(files, webhooks, f.bad, f.failAt)} :
             /\ Effective(f, r, appendWebhooks(files, webhooks, {}, 0))
             /\ files' = IF call THEN r.files ELSE files
             /\ storeOp' = IF call THEN AppendOp(webhooks, r) ELSE storeOp
             /\ faults' = Count(f)
             /\ notified' =
                  IF pc = "returned" /\ (call => r.ok) /\ autoNotifyNew
                       /\ Len(webhooks) > 0
                  THEN NotifyTargets(IF call THEN r.files ELSE files, webhooks)
                  ELSE {}
  /\ pc' = "idle"
  /\ queryIndex' = 0
  /\ page' = 0
  /\ items' = <<>>
  /\ matches' = <<>>
  /\ webhooks' = <<>>
  /\ invalidWebhooks' = {}
  /\ pendingWebhooks' = <<>>
  /\ lastCall' = NoCall
  /\ firstCall' = NoCall
  /\ runCkpt' = NoCheckpoint
  /\ fetched' = {}
  /\ extracted' = {}
  /\ fetchFailed' = {}
  /\ resume' = "none"
  /\ crashFiles' = {}
  /\ UNCHANGED <<ckptFile, scanState, cfgVars, paramVars, scanBase>>
  /\ UNCHANGED auxVars

\* The process is killed and started again: the files stay, the memory of
\* the process starts from its initial values
Crash ==
  /\ pc # "idle"
  /\ faults < MaxFaults
  /\ faults' = faults + 1
  /\ pc' = "idle"
  /\ scanState' = ZeroScanState
  /\ queryIndex' = 0
  /\ page' = 0
  /\ items' = <<>>
  /\ matches' = <<>>
  /\ webhooks' = <<>>
  /\ invalidWebhooks' = {}
  /\ pendingWebhooks' = <<>>
  /\ lastCall' = NoCall
  /\ firstCall' = NoCall
  /\ runCkpt' = NoCheckpoint
  /\ fetched' = {}
  /\ extracted' = {}
  /\ fetchFailed' = {}
  /\ IF pc \notin {"returned", "thrown"} /\ saveIncrementally /\ continuePrevious
     THEN /\ resume' = "crashed"
          /\ crashFiles' = ckptFile.state.scannedFiles
     ELSE /\ resume' = "none"
          /\ crashFiles' = {}
  /\ UNCHANGED <<files, ckptFile, cfgVars, paramVars, scanBase, storeOp>>
  /\ notified' = {}
  /\ UNCHANGED auxVars

\* validateAllWebhooks() of the menu with the answer "y": the stored URLs
\* that validateWebhook classified invalid are removed by saveWebhooks
PruneInvalid ==
  /\ pc = "idle"
  /\ storeCalls < MaxStoreCalls
  /\ storeCalls' = storeCalls + 1
  /\ LET allWebhooks == loadAllWebhooks(files, {})
     IN /\ Len(allWebhooks) > 0
        /\ \E invalid \in (SUBSET Range(allWebhooks)) \ {{}} :
             LET validWebhooks == FilterNotIn(allWebhooks, invalid)
                 r == saveWebhooks(files, validWebhooks, 0)
             IN /\ files' = r.files
                /\ storeOp' = [op |-> "save", arg |-> validWebhooks,
                               before |-> files, existing |-> allWebhooks,
                               wrote |-> TRUE, saved |-> validWebhooks,
                               ok |-> r.ok]
  /\ scanBase' = {}
  /\ UNCHANGED <<ckptFile, scanState, validateBeforeSaving, continuePreviousScan,
                 scans, pc, paramVars, queryIndex, page, items, matches, webhooks,
                 invalidWebhooks, pendingWebhooks, faults, callVars, runCkpt,
                 fetched, extracted, fetchFailed, crashVars>>
  /\ UNCHANGED notified
  /\ UNCHANGED auxVars

Next ==
  \/ \E isContinuous \in BOOLEAN : StartScan(isContinuous)
  \/ NextQuery
  \/ SearchPage
  \/ RateLimitWait
  \/ QueryAbort
  \/ NextItem
  \/ NextMatch
  \/ PageEnd
  \/ Finish
  \/ ScanTail
  \/ Crash

Spec == Init /\ [][Next]_vars

\* The steps of scanGitHub: each is the continuation of an await of the one
\* running invocation, which the event loop runs once the awaited call ends
ScanStep ==
  \/ NextQuery
  \/ SearchPage
  \/ RateLimitWait
  \/ QueryAbort
  \/ NextItem
  \/ NextMatch
  \/ PageEnd
  \/ Finish

\* scanGitHub has been called and has neither returned nor thrown
ScanRunning ==
  pc \in {"query", "page", "rateLimited", "failed", "item", "match",
          "pageEnd", "finish"}

\* The checkpoints a process that was killed may have left when the pages
\* it searched had no file to fetch: the position of any search call
LeftCheckpoints ==
  {NoCheckpoint} \cup
  {[exists |-> TRUE,
    state |-> [ZeroScanState EXCEPT !.lastQuery = q, !.lastPage = p]] :
     q \in 0..(NumQueries - 1), p \in 0..Pages}

\* A process started on such a checkpoint, with one scan to run and the
\* default validateBeforeSaving
InitFair ==
  /\ \E checkpoint \in LeftCheckpoints : InitWith(checkpoint, MaxScans - 1)
  /\ validateBeforeSaving
  /\ probe = NoProbe
  /\ answer = NoAnswer
  /\ jobs = <<>>

\* The engine in a process that is not killed
NextFair ==
  \/ \E isContinuous \in BOOLEAN : StartScan(isContinuous)
  \/ ScanStep
  \/ ScanTail

\* ... with every awaited call of a running scan ending
SpecFair == InitFair /\ [][NextFair]_vars /\ WF_vars(ScanStep)

(***************************************************************************)
(* The store used on its own: saveWebhooks and appendWebhooks called with  *)
(* lists drawn from bounded sets, and the prune-invalid operation.         *)
(***************************************************************************)
\* Lists of URLs of length 0..n
ListsUpTo(n) == UNION {[1..k -> Urls] : k \in 0..n}

\* The lists passed to appendWebhooks (pendingWebhooks may repeat a URL)
AppendInputs == ListsUpTo(2)

\* The lists passed to saveWebhooks: no URL twice
SaveInputs == {xs \in ListsUpTo(3) : NoDuplicates(xs)}

StoreAppend(newWebhooks) ==
  /\ pc = "idle"
  /\ storeCalls < MaxStoreCalls
  /\ storeCalls' = storeCalls + 1
  /\ \E f \in FaultChoices(TRUE, FALSE) :
       \E r \in {appendWebhooks(files, newWebhooks, f.bad, f.failAt)} :
          /\ Effective(f, r, appendWebhooks(files, newWebhooks, {}, 0))
          /\ files' = r.files
          /\ storeOp' = AppendOp(newWebhooks, r)
          /\ faults' = Count(f)
  /\ UNCHANGED <<ckptFile, scanState, validateBeforeSaving, continuePreviousScan,
                 scans, pc, paramVars, queryIndex, page, items, matches, webhooks,
                 invalidWebhooks, pendingWebhooks, callVars, runCkpt, fetched,
                 extracted, fetchFailed,
                 crashVars, scanBase>>
  /\ UNCHANGED notified
  /\ UNCHANGED auxVars

StoreSave(allWebhooks) ==
  /\ pc = "idle"
  /\ storeCalls < MaxStoreCalls
  /\ storeCalls' = storeCalls + 1
  /\ \E f \in {g \in FaultChoices(TRUE, FALSE) : g.bad = {}} :
       \E r \in {saveWebhooks(files, allWebhooks, f.failAt)} :
          /\ Effective(f, r, saveWebhooks(files, allWebhooks, 0))
          /\ files' = r.files
          /\ storeOp' = [op |-> "save", arg |-> allWebhooks, before |-> files,
                         existing |-> <<>>, wrote |-> TRUE,
                         saved |-> allWebhooks, ok |-> r.ok]
          /\ faults' = Count(f)
  /\ UNCHANGED <<ckptFile, scanState, validateBeforeSaving, continuePreviousScan,
                 scans, pc, paramVars, queryIndex, page, items, matches, webhooks,
                 invalidWebhooks, pendingWebhooks, callVars, runCkpt, fetched,
                 extracted, fetchFailed,
                 crashVars, scanBase>>
  /\ UNCHANGED notified
  /\ UNCHANGED auxVars

NextStore ==
  \/ \E allWebhooks \in SaveInputs : StoreSave(allWebhooks)
  \/ \E newWebhooks \in AppendInputs : StoreAppend(newWebhooks)
  \/ PruneInvalid

SpecStore == Init /\ [][NextStore]_vars

(***************************************************************************)
(* validateWebhook and the rate-limit wait applied on their own: the input *)
(* is drawn from a bounded set and the function is applied to it once.     *)
(***************************************************************************)
scanVars ==
  <<files, ckptFile, scanState, validateBeforeSaving, continuePreviousScan, pc,
    saveIncrementally, continuePrevious, queryIndex, page, items, matches,
    webhooks, invalidWebhooks, pendingWebhooks, faults, scans, storeCalls,
    lastCall, firstCall, runCkpt, fetched, extracted, fetchFailed, notified,
    resume,
    crashFiles, scanBase, storeOp>>

\* validateWebhook with each outcome of its fetch
ValidateProbes == {[op |-> "validate", response |-> r] : r \in Responses}

\* The x-ratelimit-reset headers (epoch seconds, as digits), the readings of
\* the clock when the wait is computed, and how late the timer may fire
Headers == {<<0>>, <<1>>, <<2>>, <<1, 0>>}
Nows == {0, 999, 1000, 1001, 2500, 12000}
Lateness == {0, 3}
WaitProbes ==
  {[op |-> "wait", header |-> h, now |-> n, late |-> l] :
     h \in Headers, n \in Nows, l \in Lateness}

\* The scan states saveScanState may be called on, and what the global
\* scanState holds when the file is loaded again: the initial value of a new
\* process, or the state of a scan that went on
ScanStates ==
  [lastQuery : 0..(NumQueries - 1), lastPage : 0..Pages,
   scannedFiles : SUBSET {File1, File2},
   foundWebhooks : SUBSET {UrlA, UrlB, UrlC}]
LaterState ==
  [lastQuery |-> NumQueries - 1, lastPage |-> Pages, scannedFiles |-> {File2},
   foundWebhooks |-> {UrlC}]
RoundTripProbes ==
  {[op |-> "roundtrip", state |-> st, mem |-> m] :
     st \in ScanStates, m \in {ZeroScanState, LaterState}}

InitFunctions ==
  /\ InitScan
  /\ probe \in ValidateProbes \cup WaitProbes \cup RoundTripProbes
  /\ answer = NoAnswer
  /\ jobs = <<>>

\* validateWebhook(webhook), its fetch ending as probe.response
Validate ==
  /\ probe.op = "validate"
  /\ answer = NoAnswer
  /\ answer' = [op |-> "validate", valid |-> validateResponse(probe.response)]
  /\ UNCHANGED <<scanVars, probe, jobs>>

\* The rate-limit branch up to the retry: the wait is computed at probe.now
\* and the timer of setTimeout(resolve, waitTime) fires probe.late after it
\* is due, which is when the page is requested again
Wait ==
  /\ probe.op = "wait"
  /\ answer = NoAnswer
  /\ \E w \in {waitTime(ResetTime(probe.header), probe.now)} :
       answer' = [op |-> "wait", waitTime |-> w,
                  retryAt |-> probe.now + w + probe.late]
  /\ UNCHANGED <<scanVars, probe, jobs>>

\* saveScanState() on probe.state with the write succeeding, then
\* loadScanState() with probe.mem in memory
RoundTrip ==
  /\ probe.op = "roundtrip"
  /\ answer = NoAnswer
  /\ answer' =
       [op |-> "roundtrip",
        state |-> loadScanState(probe.mem,
                                saveScanState(probe.state, NoCheckpoint, FALSE))]
  /\ UNCHANGED <<scanVars, probe, jobs>>

NextFunctions ==
  \/ Validate
  \/ Wait
  \/ RoundTrip

SpecFunctions == InitFunctions /\ [][NextFunctions]_vars

(***************************************************************************)
(* The menu of cli.js.  startCLI hands every input line to                 *)
(* handleMenuSelection without awaiting it, so each line starts a handler  *)
(* of its own; jobs holds the handlers that called performScan, in the     *)
(* order of their lines.  A job is at "search" while its scanGitHub is     *)
(* suspended at a search or content request, at "sleep" while it is in the *)
(* rate-limit sleep, at "timer" while its setTimeout(continuousScan, 1000) *)
(* is pending, and at "done" when its handler has returned for good.       *)
(***************************************************************************)
MaxLines == 3
MaxRounds == 2

\* The menu selections that scan: "1" continuous, "2" single
ScanSelections == {"1", "2"}

\* The jobs whose scanGitHub invocation has started and not returned
ActiveScans == {j \in 1..Len(jobs) : jobs[j].at \in {"search", "sleep"}}

\* rl.on("line", ...) with selection "1" or "2": the handler runs up to the
\* first await inside performScan, whatever the other handlers are doing
MenuLine(selection) ==
  /\ Len(jobs) < MaxLines
  /\ jobs' = Append(jobs, [continuous |-> selection = "1", at |-> "search",
                           scanCount |-> 1])
  /\ UNCHANGED <<scanVars, probe, answer>>

\* The search API answers a job's request with the rate-limit signal
ScanRateLimited(j) ==
  /\ jobs[j].at = "search"
  /\ jobs' = [jobs EXCEPT ![j].at = "sleep"]
  /\ UNCHANGED <<scanVars, probe, answer>>

\* The rate-limit sleep of a job ends and the job retries its page
ScanWakes(j) ==
  /\ jobs[j].at = "sleep"
  /\ jobs' = [jobs EXCEPT ![j].at = "search"]
  /\ UNCHANGED <<scanVars, probe, answer>>

\* performScan of a job returns: case "1" and continuousScan arm the timer
\* for the next scan, case "2" shows the menu and ends
ScanReturns(j) ==
  /\ jobs[j].at = "search"
  /\ jobs' = [jobs EXCEPT ![j].at = IF jobs[j].continuous THEN "timer"
                                     ELSE "done"]
  /\ UNCHANGED <<scanVars, probe, answer>>

\* The timer of a continuous job fires: continuousScan calls performScan
TimerFires(j) ==
  /\ jobs[j].at = "timer"
  /\ jobs[j].scanCount < MaxRounds
  /\ jobs' = [jobs EXCEPT ![j].at = "search",
                          ![j].scanCount = jobs[j].scanCount + 1]
  /\ UNCHANGED <<scanVars, probe, answer>>

NextCli ==
  \/ \E selection \in ScanSelections : MenuLine(selection)
  \/ \E j \in 1..Len(jobs) : ScanRateLimited(j)
  \/ \E j \in 1..Len(jobs) : ScanWakes(j)
  \/ \E j \in 1..Len(jobs) : ScanReturns(j)
  \/ \E j \in 1..Len(jobs) : TimerFires(j)

SpecCli == Init /\ [][NextCli]_vars

(***************************************************************************)
(* Properties of the scan engine, checked under Spec.                      *)
(***************************************************************************)
\* C1: when the search call for (q, p) fails with the rate-limit signal, the
\* next search call the engine issues is for the same (q, p): the page
\* counter has not advanced and no other query or page is requested first.
C1_RetrySamePage ==
  [][(lastCall.res = "ratelimit" /\ lastCall'.res # "none")
       => (lastCall'.q = lastCall.q /\ lastCall'.p = lastCall.p)]_vars

\* The search call for the last page of the second query failed with the
\* rate-limit signal, the rate-limit branch has run, and the page loop is
\* about to issue its next call
C1_Witness ==
  /\ pc = "page"
  /\ lastCall.res = "ratelimit"
  /\ lastCall.q = NumQueries - 1
  /\ lastCall.p = Pages
  /\ queryIndex = lastCall.q
  /\ page = lastCall.p

\* C2: when scanGitHub runs with continuePrevious and the persisted
\* checkpoint holds (lastQuery = q, lastPage = p) with p >= 1, the first
\* search call of the run is for query q at page p.
C2_ResumeAtCheckpoint ==
  (continuePrevious /\ runCkpt.exists /\ runCkpt.state.lastPage >= 1
     /\ firstCall.res # "none")
    => (firstCall.q = runCkpt.state.lastQuery
          /\ firstCall.p = runCkpt.state.lastPage)

\* A run resumed from the checkpoint (1, 2) has issued its first search call
C2_Witness ==
  /\ continuePrevious
  /\ runCkpt.exists
  /\ runCkpt.state.lastQuery = 1
  /\ runCkpt.state.lastPage = 2
  /\ firstCall.res # "none"

\* C3: during a scanGitHub run with continuePrevious, no file whose FileId is
\* in the scannedFiles of the checkpoint persisted before the run has its
\* content fetched, in any query or page of the run.
C3_NoRefetchOfVisitedFiles ==
  (continuePrevious /\ runCkpt.exists)
    => fetched \cap runCkpt.state.scannedFiles = {}

\* A resumed run was handed File1, which its checkpoint records as visited,
\* skipped it, and goes on with File2 of the same page
C3_Witness ==
  /\ continuePrevious
  /\ runCkpt.exists
  /\ File1 \in runCkpt.state.scannedFiles
  /\ pc = "item"
  /\ lastCall.res = "ok"
  /\ items = <<File2>>
  /\ File1 \notin fetched

\* C4: no accepted URL is lost by an interruption: after an incremental,
\* resumable scan was interrupted and a new run resumed from the persisted
\* checkpoint and completed, every URL contained in a file that the
\* checkpoint recorded as visited is in the durable store or was classified
\* invalid by the validator.
C4_NoUrlLostByInterruption ==
  (pc = "returned" /\ resume = "resumed")
    => \A f \in crashFiles : \A u \in Range(Matches(f)) :
         \/ u \in StoredSet(files)
         \/ (validateBeforeSaving /\ ~validateWebhook(u))

\* C5: the durable result set never contains the same URL twice: starting
\* from an empty data directory, after any sequence of scans,
\* loadAllWebhooks returns a list with no repeated element.
C5_StoreHasNoDuplicates == NoDuplicates(Stored(files))

\* C7: the result set grows monotonically across scans: with no
\* prune-invalid operation, every URL that loadAllWebhooks returned before a
\* scan is still returned after the scan, whatever search, content-fetch,
\* validation or chunk-read failures occur during it.
C7_MonotonicGrowth == (pc = "idle") => (scanBase \subseteq StoredSet(files))

(***************************************************************************)
(* Properties of the store, checked under SpecStore.                       *)
(***************************************************************************)
\* C6: re-saving the full result set fully replaces the chunk set: after
\* saveWebhooks(X) returns, the only chunk files in the data directory are
\* the ones written for X, and loadAllWebhooks returns only elements of X.
C6_SaveReplacesChunkSet ==
  (storeOp.op = "save" /\ storeOp.ok)
    => (files = ChunkTexts(storeOp.arg)
          /\ StoredSet(files) \subseteq Range(storeOp.arg))

C10_StoreRoundTrip ==
  (storeOp.op = "save" /\ storeOp.ok /\ storeOp.before = <<>>
     /\ NoDuplicates(storeOp.arg))
    => /\ Stored(files) = storeOp.arg
       /\ \A i \in 1..Len(files) : IsArrayText(files[i])
       /\ Flatten([i \in 1..Len(files) |-> ParseArray(files[i])]) = storeOp.arg

\* Three distinct URLs were saved into an empty directory as two chunk files
C10_Witness ==
  /\ storeOp.op = "save"
  /\ storeOp.ok
  /\ storeOp.before = <<>>
  /\ Len(storeOp.arg) = 3
  /\ NoDuplicates(storeOp.arg)
  /\ Len(files) = 2

\* C11: every chunk file written by saveWebhooks has a serialized length that
\* does not exceed the configured ceiling chunkSizeBytes.
C11_ChunkWithinCeiling ==
  \A i \in 1..Len(files) :
    IsArrayText(files[i]) => StringifyLen(ParseArray(files[i])) <= ChunkSizeBytes


\* C12: within one session the content of a FileId is fetched at most once:
\* an item whose content this scanGitHub has already requested is skipped by
\* the visited-file check.
C12_FileFetchedAtMostOnce ==
  (pc = "item" /\ items # <<>> /\ Head(items) \in fetched)
    => AlreadyScanned(scanState, Head(items))


\* C13: within one session a URL is validated and queued at most once: a
\* match that this scanGitHub has already accepted or classified invalid is
\* skipped by the two duplicate checks.
C13_UrlProcessedAtMostOnce ==
  (pc = "match" /\ matches # <<>>
     /\ Head(matches) \in (Range(webhooks) \cup invalidWebhooks))
    => (Head(matches) \in invalidWebhooks
          \/ Head(matches) \in scanState.foundWebhooks)


\* The URLs of the session's found set when this scanGitHub began
PreFound == IF continuePrevious THEN runCkpt.state.foundWebhooks ELSE {}

\* C14 as stated: with validate-before-saving disabled, scanGitHub returns
\* exactly the distinct URLs extracted from the files it processed in this
\* invocation, each once (no I/O fault having occurred).
C14_ReturnsExactlyExtracted ==
  (pc = "returned" /\ ~validateBeforeSaving /\ faults = 0)
    => (NoDuplicates(webhooks) /\ Range(webhooks) = extracted)

\* C14: with validate-before-saving disabled, the returned array holds no URL
\* twice, holds only URLs extracted from the files processed in this
\* invocation, and, when no I/O fault occurred, holds every such URL that
\* was not already in the session's found set when the invocation began.
C14_ReturnsExtractedNotYetFound ==
  ~validateBeforeSaving
    => /\ NoDuplicates(webhooks)
       /\ Range(webhooks) \subseteq extracted
       /\ (pc = "returned" /\ faults = 0)
            => (extracted \ PreFound) \subseteq Range(webhooks)

\* A scan without validation returned after it processed both files: UrlB,
\* which occurs in File1 and twice in File2, is in the returned array once
C14_Witness ==
  /\ pc = "returned"
  /\ ~validateBeforeSaving
  /\ faults = 0
  /\ fetched = {File1, File2}
  /\ extracted = {UrlA, UrlB}
  /\ webhooks = <<UrlA, UrlB>>


\* The URLs the validator classifies invalid
InvalidUrls == {u \in Urls : ~validateWebhook(u)}

\* C15 as stated: with validate-before-saving enabled no invalid URL is
\* pending, returned or stored, and the returned set is exactly the
\* discovered URLs the validator classified valid (no I/O fault having
\* occurred).
C15_ReturnsExactlyValid ==
  validateBeforeSaving
    => /\ (Range(pendingWebhooks) \cup Range(webhooks) \cup StoredSet(files))
            \cap InvalidUrls = {}
       /\ (pc = "returned" /\ faults = 0)
            => Range(webhooks) = extracted \ InvalidUrls

\* C15: with validate-before-saving enabled, a URL the validator classifies
\* invalid is never in the pending buffer, in the returned set or in the
\* store; the returned URLs are discovered valid URLs, and when no I/O fault
\* occurred they include every discovered valid URL that was not already in
\* the session's found set when the invocation began.
C15_InvalidNeverAccepted ==
  validateBeforeSaving
    => /\ (Range(pendingWebhooks) \cup Range(webhooks) \cup StoredSet(files))
            \cap InvalidUrls = {}
       /\ Range(webhooks) \subseteq extracted \ InvalidUrls
       /\ (pc = "returned" /\ faults = 0)
            => (extracted \ (InvalidUrls \cup PreFound)) \subseteq Range(webhooks)

\* A validating scan processed File1, classified UrlA invalid and UrlB valid,
\* and returned UrlB alone, which is the only URL in the store
C15_Witness ==
  /\ pc = "returned"
  /\ validateBeforeSaving
  /\ extracted = {UrlA, UrlB}
  /\ invalidWebhooks = {UrlA}
  /\ webhooks = <<UrlB>>
  /\ StoredSet(files) = {UrlB}


\* C16: lastQuery is a valid index into the query list at every point of a
\* scan and in every persisted checkpoint, and it is 0 when scanGitHub has
\* returned, in memory and (no I/O fault having occurred) in scan_state.json.
C16_LastQueryValidIndex ==
  /\ scanState.lastQuery \in 0..(NumQueries - 1)
  /\ ckptFile.state.lastQuery \in 0..(NumQueries - 1)
  /\ pc = "returned"
       => /\ scanState.lastQuery = 0
          /\ faults = 0 => (ckptFile.exists /\ ckptFile.state.lastQuery = 0)

\* scanGitHub returned after its last search call was issued for the last
\* query, and the checkpoint it wrote holds lastQuery = 0
C16_Witness ==
  /\ pc = "returned"
  /\ lastCall.res # "none"
  /\ lastCall.q = NumQueries - 1
  /\ scanState.lastQuery = 0
  /\ ckptFile.exists
  /\ ckptFile.state.lastQuery = 0
  /\ faults = 0


\* C17: the completion step of scanGitHub sets lastQuery and lastPage to 0 in
\* memory and leaves scannedFiles and foundWebhooks as they were, and the
\* checkpoint it persists is that state (the file keeps its previous content
\* only when the write itself failed).
C17_CompletionResetsCountersOnly ==
  [][(pc = "finish" /\ pc' = "returned")
       => /\ scanState' = [scanState EXCEPT !.lastQuery = 0, !.lastPage = 0]
          /\ ckptFile' \in {ckptFile, [exists |-> TRUE, state |-> scanState']}
          /\ faults' = faults
               => ckptFile' = [exists |-> TRUE, state |-> scanState']]_vars

\* scanGitHub returned with both files visited and both URLs found: the
\* counters are 0 and the checkpoint file holds the same state
C17_Witness ==
  /\ pc = "returned"
  /\ scanState.scannedFiles = {File1, File2}
  /\ scanState.foundWebhooks = {UrlA, UrlB}
  /\ scanState.lastQuery = 0
  /\ scanState.lastPage = 0
  /\ ckptFile = [exists |-> TRUE, state |-> scanState]


\* C18: after a search call failed with anything but the rate-limit signal,
\* the engine leaves the page loop and goes on with the next query (the step
\* after the failure moves to the head of the query loop with queryIndex
\* one higher, unless the process is killed), and every later search call
\* of the scan is for a later query: no remaining page of the failed query
\* is requested.
C18_OtherFailureSkipsToNextQuery ==
  [][/\ (pc = "failed" /\ lastCall.res = "error")
          => \/ pc' = "idle"
             \/ (pc' = "query" /\ queryIndex' = lastCall.q + 1
                   /\ lastCall' = lastCall)
     /\ (lastCall.res = "error" /\ lastCall'.res # "none"
           /\ lastCall' # lastCall)
          => lastCall'.q > lastCall.q]_vars

\* The search call for page 1 of the first query failed; page 2 was not
\* requested and the engine is at the page loop of the second query
C18_Witness ==
  /\ pc = "page"
  /\ lastCall = [q |-> 0, p |-> 1, res |-> "error"]
  /\ queryIndex = 1


\* C19: when scanGitHub has returned normally, the pending buffer is empty
\* and every URL of the returned array is in the durable store.
C19_ReturnedUrlsAreStored ==
  (pc = "returned")
    => (pendingWebhooks = <<>> /\ Range(webhooks) \subseteq StoredSet(files))


\* C20: scanGitHub never throws to its caller because of a search, content,
\* validation, store or checkpoint failure.
C20_NeverThrows == pc # "thrown"


\* C30: every search call issued by scanGitHub carries a page number in
\* 1..pages: page 0 is never requested.
C30_PageInRange ==
  (lastCall.res # "none") => (lastCall.p \in 1..Pages)


\* C24: loadScanState on a missing or unparsable checkpoint file leaves the
\* engine with the zero-value checkpoint: the resumable scan that starts
\* with no readable scan_state.json starts from lastQuery 0, lastPage 0 and
\* empty scannedFiles and foundWebhooks.
C24_MissingCheckpointGivesZero ==
  [][(pc = "idle" /\ pc' = "query" /\ continuePrevious' /\ ~ckptFile.exists)
       => scanState' = ZeroScanState]_vars


\* C21: a failed store write and a failed checkpoint write are both observed
\* by scanGitHub: a step that flushed the pending buffer and went on along
\* its normal path has written every pending URL to the store, and a step
\* that called saveScanState and went on along its normal path has written
\* the checkpoint.
C21_WriteFailuresPropagate ==
  [][/\ (pc = "finish" /\ pc' = "returned")
          => /\ Range(pendingWebhooks) \subseteq StoredSet(files')
             /\ ckptFile' = [exists |-> TRUE, state |-> scanState']
     /\ (pc = "pageEnd" /\ pc' = "page" /\ saveIncrementally
           /\ pendingWebhooks # <<>>)
          => /\ Range(pendingWebhooks) \subseteq StoredSet(files')
             /\ ckptFile' = [exists |-> TRUE, state |-> scanState']]_vars


\* Contents of a chunk file that loadAllWebhooks cannot use: an empty file, a
\* JSON value that is not an array, and a truncated (unparsable) text
SkipTexts == {<<>>, <<"{", "}">>, <<"[", UrlA>>}

\* The entries of the chunk files other than file i, in file order
EntriesExcept(fs, i) ==
  Flatten([j \in 1..Len(fs) |-> IF j = i THEN <<>> ELSE ParseArray(fs[j])])

C28_NotifiesOnlyNew ==
  notified \cap scanBase = {}


(***************************************************************************)
(* Properties of validateWebhook and of the rate-limit wait, checked under *)
(* SpecFunctions.                                                          *)
(***************************************************************************)
\* The JSON signals of a response body
HasCode50027(response) == response.body.parses /\ response.body.code = 50027
HasIdField(response) == response.body.parses /\ response.body.hasId

\* C26: validateWebhook always returns a boolean; status 404 gives invalid
\* whatever the body; otherwise a JSON body with code 50027 gives invalid;
\* otherwise a JSON body with an id field gives valid; a network failure, or
\* a non-2xx response without these signals, gives invalid.
C26_ClassifiesByStatusAndBody ==
  (answer.op = "validate")
    => LET r == probe.response
       IN /\ answer.valid \in BOOLEAN
          /\ r.failed => ~answer.valid
          /\ (~r.failed /\ r.status = 404) => ~answer.valid
          /\ (~r.failed /\ r.status # 404 /\ HasCode50027(r)) => ~answer.valid
          /\ (~r.failed /\ r.status # 404 /\ ~HasCode50027(r) /\ HasIdField(r))
               => answer.valid
          /\ (~r.failed /\ ~ResponseOk(r.status) /\ ~HasCode50027(r)
                /\ ~HasIdField(r))
               => ~answer.valid

\* A 200 response whose JSON body carries both code 50027 and an id was
\* classified invalid: the error code is looked at before the id
C26_Witness ==
  /\ answer.op = "validate"
  /\ probe.response.status = 200
  /\ HasCode50027(probe.response)
  /\ HasIdField(probe.response)
  /\ ~answer.valid

\* C27: validateWebhook classifies as valid every response with a 2xx or 3xx
\* status whose body cannot be parsed as JSON.
C27_UnparsableRedirectIsValid ==
  (answer.op = "validate" /\ ~probe.response.failed
     /\ probe.response.status \in 200..399 /\ ~probe.response.body.parses)
    => answer.valid

\* C29: the rate-limit wait is max(0, resetTime - now) + 1 second: it is
\* never negative, it is at least 1 second, and the retry is not issued
\* before the advertised reset time.
C29_WaitReachesResetTime ==
  (answer.op = "wait")
    => /\ answer.waitTime = Max(0, ResetTime(probe.header) - probe.now) + 1000
       /\ answer.waitTime >= 0
       /\ answer.waitTime >= 1000
       /\ answer.retryAt >= ResetTime(probe.header)

\* The reset time had passed 11 seconds before the wait was computed: the
\* wait is the 1 second buffer alone
C29_Witness ==
  /\ answer.op = "wait"
  /\ ResetTime(probe.header) = 1000
  /\ probe.now = 12000
  /\ answer.waitTime = 1000


(***************************************************************************)
(* Properties of the menu, checked under SpecCli.                          *)
(***************************************************************************)
\* C23: at most one scan engine loop is active at a time in the process: a
\* second scanGitHub invocation is never started while another one is
\* suspended at a network call or in the rate-limit sleep, whatever menu
\* line or timer event arrives.
C23_AtMostOneScan == Cardinality(ActiveScans) <= 1


(***************************************************************************)
(* Termination of scanGitHub, checked under SpecFair.                      *)
(***************************************************************************)
\* C22: scanGitHub terminates whenever the search API answers with the
\* rate-limit signal only finitely many times: a search call is repeated
\* for the same query and page only after the rate-limit signal, and a scan
\* that is running has eventually returned, thrown or been killed.
C22_TerminatesUnlessRateLimitedForever ==
  /\ [][(pc = "page" /\ pc' \in {"item", "rateLimited", "failed"}
           /\ lastCall.res # "none"
           /\ lastCall'.q = lastCall.q /\ lastCall'.p = lastCall.p)
          => lastCall.res = "ratelimit"]_vars
  /\ (<>[](pc # "rateLimited")) => (ScanRunning ~> ~ScanRunning)

\* scanGitHub has returned in a scan whose first search call was answered
\* with the rate-limit signal
C22_Witness ==
  /\ pc = "returned"
  /\ firstCall.res = "ratelimit"
  /\ lastCall.res = "ok"


(***************************************************************************)
(* Properties of the page position, the flushes and the checkpoint writes. *)
(***************************************************************************)
\* C31: after a query's pages finish or are aborted, the next query starts
\* at its first page: no leading page of a query that is not the first of
\* its scan is skipped because of the page position of the previous query.
C31_NextQueryStartsAtFirstPage ==
  [][(pc = "query" /\ pc' = "page" /\ firstCall.res # "none") => page' <= 1]_vars


\* C32: on a rate-limit signal and on any other search failure the engine
\* appends the pending buffer to the store and persists the checkpoint
\* before it sleeps or moves on to the next query, whether or not
\* incremental saving is enabled and whether or not the buffer is empty
\* (stated for the steps in which no write fails).
C32_FailureFlushesAndCheckpoints ==
  [][(pc \in {"rateLimited", "failed"} /\ pc' \in {"page", "query"}
        /\ faults' = faults)
       => /\ pendingWebhooks' = <<>>
          /\ Range(pendingWebhooks) \subseteq StoredSet(files')
          /\ ckptFile' = [exists |-> TRUE, state |-> scanState]]_vars

\* C33: with incremental saving enabled the checkpoint is written to disk
\* immediately after every flush of the pending buffer and after every
\* completed page, including pages on which no URL was accepted (stated for
\* the steps in which no write fails).
C33_CheckpointAfterFlushAndPage ==
  [][(saveIncrementally /\ faults' = faults
        /\ \/ pc = "pageEnd" /\ pc' = "page"
           \/ pc \in {"match", "pageEnd", "rateLimited", "failed"}
                /\ storeOp' # storeOp)
       => ckptFile' = [exists |-> TRUE,
                       \* after a break, line 307 follows the write
                       state |-> IF pc = "failed" THEN scanState
                                 ELSE scanState']]_vars


\* C34: with incremental saving enabled and store writes succeeding,
\* whenever the engine starts processing a candidate URL the pending buffer
\* holds fewer than saveInterval URLs, and at every page boundary it is
\* empty; while no read or write has failed, the accepted URLs that an
\* interruption of the scan would lose are in that buffer.
C34_PendingBelowInterval ==
  /\ (saveIncrementally /\ storeOp.ok)
       => /\ (pc = "match" /\ matches # <<>>)
               => Len(pendingWebhooks) < SaveInterval
          /\ (pc = "page") => pendingWebhooks = <<>>
  /\ (saveIncrementally /\ faults = 0 /\ ScanRunning)
       => (Range(webhooks) \ StoredSet(files)) \subseteq Range(pendingWebhooks)

\* A candidate is about to be processed with the buffer one short of the
\* interval, after an earlier append of this scan emptied it
C34_Witness ==
  /\ saveIncrementally
  /\ pc = "match"
  /\ matches # <<>>
  /\ Len(pendingWebhooks) = SaveInterval - 1
  /\ storeOp.op = "append"
  /\ storeOp.ok


(***************************************************************************)
(* Properties of the item loop and of what the checkpoint records.         *)
(***************************************************************************)
\* C35: a content-fetch failure for one search result item skips only that
\* item: the engine goes on with the remaining items of the same page, no
\* accepted URL is dropped, and the item loop is only left for the matches
\* of an item or for the normal end of the page, never for the page catch.
C35_FetchFailureSkipsOneItem ==
  /\ [][(fetchFailed' # fetchFailed /\ fetchFailed' # {})
          => /\ pc' = "item"
             /\ items' = Tail(items)
             /\ UNCHANGED <<page, queryIndex, webhooks, pendingWebhooks,
                            lastCall>>]_vars
  /\ [][(pc = "item") => (pc' \in {"item", "match", "pageEnd", "idle"})]_vars

\* On the first page searched, the content request for File1 failed, File2
\* was fetched and its URLs extracted, and the page has reached its end
C35_Witness ==
  /\ pc = "pageEnd"
  /\ firstCall = lastCall
  /\ fetchFailed = {File1}
  /\ fetched = {File1, File2}
  /\ Range(Matches(File2)) \subseteq extracted


\* C36: every checkpoint the engine persists is consistent with the store:
\* when saveScanState writes the checkpoint the pending buffer is empty, and
\* every URL of the persisted foundWebhooks is in the durable store or is
\* classified invalid by the validator.
C36_CheckpointConsistentWithStore ==
  [][(ckptFile' # ckptFile /\ ckptFile'.exists)
       => /\ pendingWebhooks' = <<>>
          /\ \A webhook \in ckptFile'.state.foundWebhooks :
               \/ webhook \in StoredSet(files')
               \/ validateBeforeSaving /\ ~validateWebhook(webhook)]_vars


\* C37: a FileId is added to scannedFiles before its content is fetched and
\* is not removed when the fetch, the validation or a store write for that
\* file fails; a file whose content request failed is recorded as visited
\* in every checkpoint written later in the scan, and no file is fetched
\* while scannedFiles holds it.
C37_FailedFileStaysVisited ==
  /\ [][(fetched' # fetched /\ fetched' # {})
          => /\ (fetched' \ fetched) \subseteq scanState'.scannedFiles
             /\ (fetched' \ fetched) \cap scanState.scannedFiles = {}]_vars
  /\ [][(pc \in {"item", "match"} /\ pc' # "idle")
          => scanState.scannedFiles \subseteq scanState'.scannedFiles]_vars
  /\ [][(ScanRunning /\ ckptFile' # ckptFile /\ ckptFile'.exists)
          => fetchFailed \subseteq ckptFile'.state.scannedFiles]_vars


\* C38: a URL classified invalid stays in foundWebhooks and is written to
\* the checkpoint with it, so a later run resumed from that checkpoint skips
\* the URL without calling the validator again; the invalid-URL cache itself
\* starts empty in every scanGitHub invocation.
C38_InvalidUrlStaysFound ==
  /\ [][(pc = "idle" /\ pc' = "query") => invalidWebhooks' = {}]_vars
  /\ ScanRunning => invalidWebhooks \subseteq scanState.foundWebhooks
  /\ [][(ScanRunning /\ ckptFile' # ckptFile /\ ckptFile'.exists)
          => invalidWebhooks \subseteq ckptFile'.state.foundWebhooks]_vars


(***************************************************************************)
(* The checkpoint round trip, checked under SpecFunctions.                 *)
(***************************************************************************)
\* C39: for every scan state, loadScanState after a successful
\* saveScanState restores the same lastQuery, lastPage, scannedFiles and
\* foundWebhooks that were in memory when it was saved.
C39_CheckpointRoundTrip ==
  (answer.op = "roundtrip")
    => /\ answer.state.lastQuery = probe.state.lastQuery
       /\ answer.state.lastPage = probe.state.lastPage
       /\ answer.state.scannedFiles = probe.state.scannedFiles
       /\ answer.state.foundWebhooks = probe.state.foundWebhooks

\* A state with both files and two URLs at the last query and page was saved
\* and loaded into a process whose scanState held its initial value
C39_Witness ==
  /\ answer.op = "roundtrip"
  /\ probe.mem = ZeroScanState
  /\ probe.state = [lastQuery |-> NumQueries - 1, lastPage |-> Pages,
                    scannedFiles |-> {File1, File2},
                    foundWebhooks |-> {UrlA, UrlB}]
  /\ answer.state = probe.state

=============================================================================
